---------------------------- MODULE Spec2Model ----------------------------
(***************************************************************************)
(* flagrant: a flag description language.  The pipeline of src/bin/flagc.rs *)
(*   text -> SExpr::parse -> to_flag_geometry -> tags + resolve -> draw    *)
(* over the types and functions of src/lib.rs.                             *)
(*                                                                         *)
(* Characters are one-character strings, a String is a sequence of them.   *)
(* Option<T> is either a value of T or None.  u32 arithmetic is modelled   *)
(* at a reduced word width (WordBits) so that products and sums that do    *)
(* not fit the word are within reach of the checked inputs.                *)
(***************************************************************************)
EXTENDS Integers, Sequences, FiniteSets, TLC

VARIABLES
    pc,               \* position in main: which stage runs next
    fdl,              \* the program argument, a String
    rest,             \* the Peekable<Chars> iterator: what is left of fdl
    sexpr,            \* Option<SExpr>
    ufg,              \* Option<UnresolvedFlagGeometry>
    tags,             \* HashMap<String, Rc<UnresolvedFlagGeometry>>
    flag,             \* Option<FlagGeometry>
    img,              \* the MsPaint buffer: width, height, pixels
    calls,            \* the rectangle calls draw has issued, in order
    panic,            \* "" or the panic that ended the run
    overflow_checks   \* build profile: TRUE panics on overflow, FALSE wraps

vars == <<pc, fdl, rest, sexpr, ufg, tags, flag, img, calls, panic, overflow_checks>>

(***************************************************************************)
(* Bounds of the checked inputs.                                           *)
(***************************************************************************)
WordBits == 3
MaxLen == 5
MaxItems == 5
MaxElements == 3
MaxChildren == 2
MaxWeight == 3
MaxWidth == 3
MaxHeight == 2
StackLimit == 24

Modulus == 2 ^ WordBits
U32Max == Modulus - 1

None == [kind |-> "None"]
\* Some(v) for the options whose payload is a number or a string
Some(v) == [kind |-> "Some", val |-> v]
NoPanic == ""

(***************************************************************************)
(* Color, to_hex_color, Color::from_str                                    *)
(***************************************************************************)
Blue == [tag |-> "Blue"]
Green == [tag |-> "Green"]
Red == [tag |-> "Red"]
White == [tag |-> "White"]
Yellow == [tag |-> "Yellow"]
Black == [tag |-> "Black"]
Rgb(r, g, b) == [tag |-> "Rgb", rgb |-> <<r, g, b>>]

to_rgb(color) ==
    CASE color.tag = "Blue" -> <<0, 0, 255>>
      [] color.tag = "Green" -> <<0, 255, 0>>
      [] color.tag = "Red" -> <<255, 0, 0>>
      [] color.tag = "White" -> <<255, 255, 255>>
      [] color.tag = "Yellow" -> <<255, 255, 0>>
      [] color.tag = "Black" -> <<0, 0, 0>>
      [] color.tag = "Rgb" -> color.rgb

DecDigits == <<"0", "1", "2", "3", "4", "5", "6", "7", "8", "9">>
HexLower == <<"a", "b", "c", "d", "e", "f">>
HexUpper == <<"A", "B", "C", "D", "E", "F">>

\* char::to_digit(radix): the digit's value, or None
to_digit(c, radix) ==
    LET dec == {i \in 1..10 : DecDigits[i] = c}
        low == {i \in 1..6 : HexLower[i] = c}
        upp == {i \in 1..6 : HexUpper[i] = c}
        v == IF dec # {} THEN (CHOOSE i \in dec : TRUE) - 1
             ELSE IF low # {} THEN (CHOOSE i \in low : TRUE) + 9
             ELSE IF upp # {} THEN (CHOOSE i \in upp : TRUE) + 9
             ELSE radix
    IN  IF v < radix THEN Some(v) ELSE None

RECURSIVE HexDigitsOf(_)
\* .chars().filter_map(|x| x.to_digit(16)).collect()
HexDigitsOf(s) ==
    IF s = <<>> THEN <<>>
    ELSE LET d == to_digit(Head(s), 16)
         IN  IF d = None THEN HexDigitsOf(Tail(s))
             ELSE <<d.val>> \o HexDigitsOf(Tail(s))

to_hex_color(s) ==
    IF Len(s) # 7 THEN None
    ELSE IF Head(s) # "#" THEN None
    ELSE LET hex == HexDigitsOf(Tail(s))
         IN  IF Len(hex) # 6 THEN None
             ELSE Rgb(hex[1] * 16 + hex[2], hex[3] * 16 + hex[4], hex[5] * 16 + hex[6])

\* <Color as FromStr>::from_str, Err(()) as None
ColorFromStr(s) ==
    CASE s = <<"b">> -> Blue
      [] s = <<"g">> -> Green
      [] s = <<"r">> -> Red
      [] s = <<"w">> -> White
      [] s = <<"y">> -> Yellow
      [] s = <<"s">> -> Black
      [] OTHER -> to_hex_color(s)

(***************************************************************************)
(* SExpr and SExpr::parse                                                  *)
(***************************************************************************)
List(items) == [kind |-> "List", list |-> items]
Literal(s) == [kind |-> "Literal", literal |-> s]

is_whitespace(c) == c \in {" "}

RECURSIVE SkipWhitespace(_, _)
\* the second loop of parse: consume whitespace after the node
SkipWhitespace(s, i) ==
    IF i <= Len(s) /\ is_whitespace(s[i]) THEN SkipWhitespace(s, i + 1) ELSE i

RECURSIVE ParseLoop(_, _, _)
\* the first loop of parse with `sexpr` the node under construction and
\* s[i] the character peek() shows; the result is the returned Option<SExpr>
\* and the iterator's position on return
ParseLoop(s, i, node) ==
    IF i > Len(s) THEN [node |-> node, pos |-> SkipWhitespace(s, i)]
    ELSE LET c == s[i] IN
         CASE node = None /\ is_whitespace(c) -> ParseLoop(s, i + 1, None)
           [] node = None /\ ~is_whitespace(c) /\ c = "(" ->
                ParseLoop(s, i + 1, List(<<>>))
           [] node = None /\ ~is_whitespace(c) /\ c # "(" ->
                ParseLoop(s, i + 1, Literal(<<c>>))
           [] node.kind = "List" /\ c = ")" ->
                [node |-> node, pos |-> SkipWhitespace(s, i + 1)]
           [] node.kind = "List" /\ c # ")" ->
                LET child == ParseLoop(s, i, None)
                IN  IF child.node = None
                    THEN [node |-> None, pos |-> child.pos]
                    ELSE ParseLoop(s, child.pos, List(Append(node.list, child.node)))
           [] node.kind = "Literal" /\ (is_whitespace(c) \/ c = ")") ->
                [node |-> node, pos |-> SkipWhitespace(s, i)]
           [] node.kind = "Literal" /\ ~(is_whitespace(c) \/ c = ")") ->
                ParseLoop(s, i + 1, Literal(Append(node.literal, c)))

parse(s) == ParseLoop(s, 1, None)

list(node) == IF node.kind = "List" THEN Some(node.list) ELSE None
literal(node) == IF node.kind = "Literal" THEN Some(node.literal) ELSE None

(***************************************************************************)
(* str::parse::<u32> as to_flag_geometry uses it for a weight              *)
(***************************************************************************)
RECURSIVE ParseDigits(_, _)
\* the digits of s folded into acc; None on a non-digit or when the value
\* no longer fits the word
ParseDigits(s, acc) ==
    IF s = <<>> THEN Some(acc)
    ELSE LET d == to_digit(Head(s), 10)
         IN  IF d = None THEN None
             ELSE IF acc * 10 + d.val > U32Max THEN None
             ELSE ParseDigits(Tail(s), acc * 10 + d.val)

ParseU32(s) ==
    LET digits == IF s # <<>> /\ Head(s) = "+" THEN Tail(s) ELSE s
    IN  IF digits = <<>> THEN None ELSE ParseDigits(digits, 0)

(***************************************************************************)
(* UnresolvedFlagGeometry / FlagGeometry and SExpr::to_flag_geometry       *)
(***************************************************************************)
Solid(color) == [kind |-> "Solid", color |-> color]
Horizontal(elements) == [kind |-> "Horizontal", elements |-> elements]
Vertical(elements) == [kind |-> "Vertical", elements |-> elements]
Tag(tag, geo) == [kind |-> "Tag", tag |-> tag, geo |-> geo]
Reference(tag) == [kind |-> "Reference", tag |-> tag]
\* UnresolvedFlagElement(geo, weight) and FlagElement(geo, weight): .0 is [1], .1 is [2]
Element(geo, weight) == <<geo, weight>>
Panic(msg) == [kind |-> "Panic", msg |-> msg]

IsSplit(geo) == geo.kind \in {"Horizontal", "Vertical"}

RECURSIVE StepBy2(_)
\* slice.iter().step_by(2)
StepBy2(s) ==
    IF s = <<>> THEN <<>>
    ELSE IF Len(s) = 1 THEN s
    ELSE <<s[1]>> \o StepBy2(SubSeq(s, 3, Len(s)))

RECURSIVE WeightsOf(_)
\* .filter_map(|x| x.literal()).filter_map(|x| x.parse().ok())
WeightsOf(nodes) ==
    IF nodes = <<>> THEN <<>>
    ELSE LET lit == literal(Head(nodes))
             w == IF lit = None THEN None ELSE ParseU32(lit.val)
         IN  IF w = None THEN WeightsOf(Tail(nodes))
             ELSE <<w.val>> \o WeightsOf(Tail(nodes))

RECURSIVE to_flag_geometry(_)
RECURSIVE BuildElements(_, _, _, _)
\* for (weight, geo) in weights.zip(geos) { geo.to_flag_geometry()?; push }
BuildElements(weights, geos, k, elements) ==
    IF k > Len(weights) \/ k > Len(geos) THEN Some(elements)
    ELSE LET geo == to_flag_geometry(geos[k])
         IN  IF geo.kind \in {"None", "Panic"} THEN geo
             ELSE BuildElements(weights, geos, k + 1,
                                Append(elements, Element(geo, weights[k])))

to_flag_geometry(node) ==
    LET l == list(node) IN
    IF l = None THEN None
    ELSE LET items == l.val
             n == Len(items)
             op == IF n >= 1 THEN literal(items[1]) ELSE None
         IN
         IF n = 0 THEN None
         ELSE IF op = None THEN None
         ELSE IF n = 2 /\ op.val = <<"s">> THEN
             LET lit == literal(items[2])
                 color == IF lit = None THEN None ELSE ColorFromStr(lit.val)
             IN  IF color = None THEN None ELSE Solid(color)
         ELSE IF op.val = <<"h">> \/ op.val = <<"v">> THEN
             IF n < 2 THEN Panic("range start index 2 out of range for slice of length 1")
             ELSE LET weights == WeightsOf(StepBy2(SubSeq(items, 2, n)))
                      geos == StepBy2(SubSeq(items, 3, n))
                      elements == BuildElements(weights, geos, 1, <<>>)
                  IN  IF elements.kind \in {"None", "Panic"} THEN elements
                      ELSE IF op.val = <<"h">> THEN Horizontal(elements.val)
                      ELSE Vertical(elements.val)
         ELSE IF n = 3 /\ op.val = <<"t">> THEN
             LET tag == literal(items[2])
                 geo == IF tag = None THEN None ELSE to_flag_geometry(items[3])
             IN  IF geo.kind \in {"None", "Panic"} THEN geo
                 ELSE Tag(tag.val, geo)
         ELSE IF n = 2 /\ op.val = <<"r">> THEN
             LET tag == literal(items[2])
             IN  IF tag = None THEN None ELSE Reference(tag.val)
         ELSE None


(***************************************************************************)
(* UnresolvedFlagGeometry::tags                                            *)
(***************************************************************************)
EmptyMap == <<>>
\* HashMap::extend / insert: the later binding of a key replaces the earlier
Extend(map, more) ==
    [k \in DOMAIN map \cup DOMAIN more |-> IF k \in DOMAIN more THEN more[k] ELSE map[k]]
Insert(map, key, value) ==
    [k \in DOMAIN map \cup {key} |-> IF k = key THEN value ELSE map[k]]

RECURSIVE TagsOf(_)
RECURSIVE TagsOfElements(_, _, _)
\* map.extend(elements.iter().flat_map(|el| el.0.tags().into_iter()))
TagsOfElements(elements, k, map) ==
    IF k > Len(elements) THEN map
    ELSE TagsOfElements(elements, k + 1, Extend(map, TagsOf(elements[k][1])))

\* a collection that stops at a Tag: the tags nested in its geometry are missed
TagsOfOutermost(geo) ==
    CASE geo.kind = "Tag" -> Insert(EmptyMap, geo.tag, geo.geo)
      [] IsSplit(geo) -> TagsOfElements(geo.elements, 1, EmptyMap)
      [] OTHER -> EmptyMap

TagsOf(geo) ==
    CASE geo.kind = "Tag" -> Insert(Extend(EmptyMap, TagsOf(geo.geo)), geo.tag, geo.geo)
      [] IsSplit(geo) -> TagsOfElements(geo.elements, 1, EmptyMap)
      [] OTHER -> EmptyMap

(***************************************************************************)
(* UnresolvedFlagGeometry::resolve and UnresolvedFlagElement::resolve.     *)
(* The recursion has no guard of its own: depth counts the nested calls    *)
(* and a call past StackLimit is the thread's stack running out.           *)
(***************************************************************************)
StackOverflow == [kind |-> "StackOverflow"]

RECURSIVE Resolve(_, _, _)
RECURSIVE ResolveElements(_, _, _, _, _)
\* a collection that ends at the first child that fails to resolve
ResolveElementsUntilFailure(elements, map, depth, k, out) ==
    IF k > Len(elements) THEN Some(out)
    ELSE LET r == Resolve(elements[k][1], map, depth + 1)
         IN  IF r = StackOverflow THEN StackOverflow
             ELSE IF r = None THEN Some(out)
             ELSE ResolveElements(elements, map, depth, k + 1,
                                  Append(out, Element(r, elements[k][2])))

\* elements.iter().filter_map(|x| x.resolve(tags)).collect()
ResolveElements(elements, map, depth, k, out) ==
    IF k > Len(elements) THEN Some(out)
    ELSE LET r == Resolve(elements[k][1], map, depth + 1)
         IN  IF r = StackOverflow THEN StackOverflow
             ELSE IF r = None THEN ResolveElements(elements, map, depth, k + 1, out)
             ELSE ResolveElements(elements, map, depth, k + 1,
                                  Append(out, Element(r, elements[k][2])))

\* a resolve that gives up on a name bound to a bare Reference
ResolveGuarded(geo, map, depth) ==
    IF depth > StackLimit THEN StackOverflow
    ELSE CASE geo.kind = "Solid" -> Solid(geo.color)
           [] IsSplit(geo) ->
                LET els == ResolveElements(geo.elements, map, depth, 1, <<>>)
                IN  IF els = StackOverflow THEN StackOverflow
                    ELSE IF geo.kind = "Horizontal" THEN Horizontal(els.val)
                    ELSE Vertical(els.val)
           [] geo.kind = "Tag" -> Resolve(geo.geo, map, depth + 1)
           [] geo.kind = "Reference" ->
                IF geo.tag \in DOMAIN map /\ map[geo.tag].kind # "Reference"
                THEN Resolve(map[geo.tag], map, depth + 1)
                ELSE None

Resolve(geo, map, depth) ==
    IF depth > StackLimit THEN StackOverflow
    ELSE CASE geo.kind = "Solid" -> Solid(geo.color)
           [] IsSplit(geo) ->
                LET els == ResolveElements(geo.elements, map, depth, 1, <<>>)
                IN  IF els = StackOverflow THEN StackOverflow
                    ELSE IF geo.kind = "Horizontal" THEN Horizontal(els.val)
                    ELSE Vertical(els.val)
           [] geo.kind = "Tag" -> Resolve(geo.geo, map, depth + 1)
           [] geo.kind = "Reference" ->
                IF geo.tag \in DOMAIN map THEN Resolve(map[geo.tag], map, depth + 1)
                ELSE None

resolve(geo, map) == Resolve(geo, map, 1)

(***************************************************************************)
(* MsPaint for RgbImage and FlagGeometry::draw_area / draw.  A buffer      *)
(* state st is [img, calls, panic]; a panic ends the drawing.               *)
(***************************************************************************)
RgbImageNew(w, h) ==
    [width |-> w, height |-> h,
     pixels |-> [p \in (0..(w - 1)) \X (0..(h - 1)) |-> <<0, 0, 0>>]]

\* a + b and a * b in u32: a panic with overflow checks on, wrapped otherwise
AddU32(a, b, checks) ==
    IF a + b > U32Max /\ checks THEN Panic("attempt to add with overflow")
    ELSE Some((a + b) % Modulus)
MulU32(a, b, checks) ==
    IF a * b > U32Max /\ checks THEN Panic("attempt to multiply with overflow")
    ELSE Some((a * b) % Modulus)
DivU32(a, b) ==
    IF b = 0 THEN Panic("attempt to divide by zero") ELSE Some(a \div b)

Call(left, top, width, height, color) ==
    [left |-> left, top |-> top, width |-> width, height |-> height, color |-> color]

\* for y in top..(top + height) { for x in left..(left + width) { self[(x, y)] = .. } }
rectangle(st, left, top, width, height, color, checks) ==
    LET called == [st EXCEPT !.calls = Append(@, Call(left, top, width, height, color))]
        yend == AddU32(top, height, checks)
    IN
    IF yend.kind = "Panic" THEN [called EXCEPT !.panic = yend.msg]
    ELSE IF yend.val <= top THEN called
    ELSE LET xend == AddU32(left, width, checks) IN
    IF xend.kind = "Panic" THEN [called EXCEPT !.panic = xend.msg]
    ELSE LET range == {p \in (left..(xend.val - 1)) \X (top..(yend.val - 1)) : TRUE}
             inside == DOMAIN st.img.pixels
             bad == range \ inside
             Before(p, q) == p[2] < q[2] \/ (p[2] = q[2] /\ p[1] < q[1])
             written == {p \in range : \A q \in bad : Before(p, q)}
             painted == [st.img EXCEPT !.pixels =
                            [p \in inside |-> IF p \in written THEN to_rgb(color) ELSE @[p]]]
         IN  IF bad = {} THEN [called EXCEPT !.img = painted]
             ELSE [called EXCEPT !.img = painted, !.panic = "index out of bounds"]

RECURSIVE SumWeights(_, _, _, _)
\* elements.iter().map(|x| x.1).sum()
SumWeights(elements, k, acc, checks) ==
    IF k > Len(elements) THEN Some(acc)
    ELSE LET s == AddU32(acc, elements[k][2], checks)
         IN  IF s.kind = "Panic" THEN s ELSE SumWeights(elements, k + 1, s.val, checks)

RECURSIVE draw_area(_, _, _, _, _, _, _)
RECURSIVE DrawElements(_, _, _, _, _, _, _, _, _, _, _)
\* the for loop of a split: child k at offset along the axis, the running
\* offset advanced by the child's extent
DrawElements(horizontal, elements, k, total, offset, st, left, top, width, height, checks) ==
    IF k > Len(elements) \/ st.panic # NoPanic THEN st
    ELSE LET geo == elements[k][1]
             pivot == elements[k][2]
             extent == IF horizontal THEN width ELSE height
             product == MulU32(pivot, extent, checks)
             share == IF product.kind = "Panic" THEN product ELSE DivU32(product.val, total)
         IN
         IF share.kind = "Panic" THEN [st EXCEPT !.panic = share.msg]
         ELSE LET drawn == IF horizontal
                           THEN draw_area(geo, st, offset, top, share.val, height, checks)
                           ELSE draw_area(geo, st, left, offset, width, share.val, checks)
                  next == AddU32(offset, share.val, checks)
              IN  IF drawn.panic # NoPanic THEN drawn
                  ELSE IF next.kind = "Panic" THEN [drawn EXCEPT !.panic = next.msg]
                  ELSE DrawElements(horizontal, elements, k + 1, total, next.val,
                                    drawn, left, top, width, height, checks)

draw_area(geo, st, left, top, width, height, checks) ==
    IF geo.kind = "Solid" THEN rectangle(st, left, top, width, height, geo.color, checks)
    ELSE LET total == SumWeights(geo.elements, 1, 0, checks)
         IN  IF total.kind = "Panic" THEN [st EXCEPT !.panic = total.msg]
             ELSE DrawElements(geo.kind = "Horizontal", geo.elements, 1, total.val,
                               IF geo.kind = "Horizontal" THEN left ELSE top,
                               st, left, top, width, height, checks)

draw(geo, st, checks) == draw_area(geo, st, 0, 0, st.img.width, st.img.height, checks)

(***************************************************************************)
(* The checked inputs                                                      *)
(***************************************************************************)
Alphabet == {"(", ")", " ", "s", "b"}

Canvases == {RgbImageNew(w, h) : w \in 1..MaxWidth, h \in 1..MaxHeight}
FullCanvas == RgbImageNew(MaxWidth, MaxHeight)

Atom(c) == Literal(<<c>>)
SolidB == List(<<Atom("s"), Atom("b")>>)
RefX == List(<<Atom("r"), Atom("x")>>)
\* the first node of a list, and the nodes after it
Heads == {Atom(c) : c \in {"h", "v", "s", "t", "r", "x"}} \cup {SolidB}
Args == {Atom(c) : c \in {"x", "b", "0", "1", "2"}}
            \cup {SolidB, RefX, List(<<Atom("s")>>), List(<<Atom("h")>>)}
\* a node: an atom, the empty list, or a head followed by up to MaxItems - 1 nodes
IsSExprInput(node) ==
    \/ node \in {Atom("s"), List(<<>>)}
    \/ \E h \in Heads : \E k \in 0..(MaxItems - 1) : \E a \in [1..k -> Args] :
          node = List(<<h>> \o a)

Names == {<<"x">>, <<"y">>}
ResolveWeights == {1, 2}
ChildGeos ==
    {Solid(Blue), Solid(Green)}
        \cup {Reference(n) : n \in Names}
        \cup {Tag(n, g) : n \in Names, g \in {Solid(Blue)} \cup {Reference(m) : m \in Names}}
        \cup {Tag(<<"x">>, Tag(<<"y">>, Solid(Green))),
              Tag(<<"y">>, Horizontal(<<Element(Reference(<<"x">>), 1)>>))}
\* geo is a split of either axis with up to n elements over geos and weights
IsSplitOver(geo, geos, weights, n) ==
    \E k \in 0..n : \E e \in [1..k -> geos \X weights] :
        geo \in {Horizontal(e), Vertical(e)}
IsUnresolvedInput(geo) ==
    geo \in ChildGeos \/ IsSplitOver(geo, ChildGeos, ResolveWeights, MaxChildren)

Stripes == <<Element(Solid(Red), 1), Element(Solid(White), 1)>>
DrawGeos == {Solid(Blue), Solid(Green), Vertical(Stripes)}
IsFlagInput(geo) ==
    geo \in DrawGeos \/ IsSplitOver(geo, DrawGeos, 0..MaxWeight, MaxElements)

(***************************************************************************)
(* main of src/bin/flagc.rs, one action per stage                          *)
(***************************************************************************)
UnwrapNone == "called Option::unwrap() on a None value"

Blank ==
    /\ rest = <<>> /\ sexpr = None /\ ufg = None /\ tags = EmptyMap
    /\ flag = None /\ calls = <<>> /\ panic = NoPanic

\* SExpr::parse(&mut fdl.chars().peekable())
Parse ==
    /\ pc = "parse"
    /\ LET r == parse(fdl) IN
        /\ sexpr' = r.node
        /\ rest' = SubSeq(fdl, r.pos, Len(fdl))
        /\ IF r.node = None
           THEN pc' = "panicked" /\ panic' = UnwrapNone
           ELSE pc' = "to_flag_geometry" /\ panic' = panic
    /\ UNCHANGED <<fdl, ufg, tags, flag, img, calls, overflow_checks>>

\* sexpr.to_flag_geometry()
ToFlagGeometry ==
    /\ pc = "to_flag_geometry"
    /\ LET g == to_flag_geometry(sexpr) IN
        CASE g.kind = "Panic" -> pc' = "panicked" /\ panic' = g.msg /\ ufg' = ufg
          [] g.kind = "None" -> pc' = "panicked" /\ panic' = UnwrapNone /\ ufg' = None
          [] OTHER -> pc' = "resolve" /\ panic' = panic /\ ufg' = g
    /\ UNCHANGED <<fdl, rest, sexpr, tags, flag, img, calls, overflow_checks>>

\* let tags = ufg.tags(); ufg.resolve(&tags)
ResolveTags ==
    /\ pc = "resolve"
    /\ tags' = TagsOf(ufg)
    /\ LET r == resolve(ufg, tags') IN
        CASE r.kind = "StackOverflow" ->
                pc' = "aborted" /\ panic' = "stack overflow" /\ flag' = flag
          [] r.kind = "None" -> pc' = "panicked" /\ panic' = UnwrapNone /\ flag' = None
          [] OTHER -> pc' = "draw" /\ panic' = panic /\ flag' = r
    /\ UNCHANGED <<fdl, rest, sexpr, ufg, img, calls, overflow_checks>>

\* flag.draw(&mut img)
Draw ==
    /\ pc = "draw"
    /\ LET st == draw(flag, [img |-> img, calls |-> calls, panic |-> panic], overflow_checks) IN
        /\ img' = st.img
        /\ calls' = st.calls
        /\ panic' = st.panic
        /\ pc' = IF st.panic = NoPanic THEN "save" ELSE "panicked"
    /\ UNCHANGED <<fdl, rest, sexpr, ufg, tags, flag, overflow_checks>>

\* the whole program, from the text of the argument
Init ==
    /\ pc = "parse"
    /\ \E k \in 0..MaxLen : fdl \in [1..k -> Alphabet]
    /\ img = FullCanvas
    /\ overflow_checks \in BOOLEAN
    /\ Blank
Next == Parse \/ ToFlagGeometry \/ ResolveTags \/ Draw
Spec == Init /\ [][Next]_vars

\* from a parsed node on
InitBuild ==
    /\ pc = "to_flag_geometry"
    /\ fdl = <<>>
    /\ img = FullCanvas
    /\ overflow_checks \in BOOLEAN
    /\ rest = <<>> /\ ufg = None /\ tags = EmptyMap
    /\ flag = None /\ calls = <<>> /\ panic = NoPanic
    /\ IsSExprInput(sexpr)
NextBuild == ToFlagGeometry \/ ResolveTags \/ Draw
SpecBuild == InitBuild /\ [][NextBuild]_vars

\* from an unresolved geometry on
InitResolve ==
    /\ pc = "resolve"
    /\ fdl = <<>>
    /\ img = FullCanvas
    /\ overflow_checks \in BOOLEAN
    /\ rest = <<>> /\ sexpr = None /\ tags = EmptyMap
    /\ flag = None /\ calls = <<>> /\ panic = NoPanic
    /\ IsUnresolvedInput(ufg)
NextResolve == ResolveTags \/ Draw
SpecResolve == InitResolve /\ [][NextResolve]_vars

\* from a resolved geometry on, over every canvas
InitDraw ==
    /\ pc = "draw"
    /\ fdl = <<>>
    /\ img \in Canvases
    /\ overflow_checks \in BOOLEAN
    /\ rest = <<>> /\ sexpr = None /\ ufg = None /\ tags = EmptyMap
    /\ calls = <<>> /\ panic = NoPanic
    /\ IsFlagInput(flag)
NextDraw == Draw
SpecDraw == InitDraw /\ [][NextDraw]_vars

(***************************************************************************)
(* Properties of SExpr::parse (specification Spec)                         *)
(***************************************************************************)
RECURSIVE AtomsOf(_)
\* the text of every Literal in a node
AtomsOf(node) ==
    CASE node.kind = "Literal" -> {node.literal}
      [] node.kind = "List" -> UNION {AtomsOf(node.list[i]) : i \in 1..Len(node.list)}
      [] OTHER -> {}

IsBlank(s) == \A i \in 1..Len(s) : is_whitespace(s[i])

\* C6: every atom of the tree parse returns consists only of characters that
\* are neither whitespace nor "(" nor ")": a ")" is never part of an atom.
C6_AtomsHoldNoDelimiter ==
    pc # "parse" =>
        \A a \in AtomsOf(sexpr) :
            \A i \in 1..Len(a) : ~is_whitespace(a[i]) /\ a[i] \notin {"(", ")"}

\* C9: parse returns no node exactly when its input is empty or all
\* whitespace; with any other character in the input it returns a node,
\* an unclosed list included.
C9_NoNodeOnlyForBlankInput ==
    pc # "parse" => (sexpr = None <=> IsBlank(fdl))

(***************************************************************************)
(* Properties of SExpr::to_flag_geometry (specification SpecBuild)         *)
(***************************************************************************)
IsAtom(node) == node.kind = "Literal"
OpOf(node) ==
    IF node.kind = "List" /\ node.list # <<>> /\ IsAtom(node.list[1])
    THEN node.list[1].literal ELSE <<>>
IsSplitForm(node) == OpOf(node) \in {<<"h">>, <<"v">>}

\* the well-formed shapes: (s color), (h w g ...) and (v w g ...) with at
\* least one pair and no dangling weight, (t name geom), (r name)
WellFormedShape(node) ==
    LET n == IF node.kind = "List" THEN Len(node.list) ELSE 0 IN
    \/ OpOf(node) = <<"s">> /\ n = 2 /\ IsAtom(node.list[2])
    \/ IsSplitForm(node) /\ n >= 3 /\ n % 2 = 1
          /\ \A i \in 2..n : i % 2 = 0 => IsAtom(node.list[i])
    \/ OpOf(node) = <<"t">> /\ n = 3 /\ IsAtom(node.list[2])
    \/ OpOf(node) = <<"r">> /\ n = 2 /\ IsAtom(node.list[2])

ReturnedNoGeometry == ufg = None /\ panic = UnwrapNone

\* C8: to_flag_geometry returns no geometry for every node that is not one
\* of the well-formed shapes.
C8_MalformedNodeFails ==
    (pc # "to_flag_geometry" /\ ~WellFormedShape(sexpr)) => ReturnedNoGeometry

RECURSIVE PairsKept(_, _)
\* of the pairs w1 g1 w2 g2 ..., those whose weight parses and whose
\* geometry builds, each geometry with the weight written before it
PairsKept(items, k) ==
    IF k + 1 > Len(items) THEN <<>>
    ELSE LET w == IF IsAtom(items[k]) THEN ParseU32(items[k].literal) ELSE None
             g == to_flag_geometry(items[k + 1])
         IN  IF w = None \/ g = None THEN PairsKept(items, k + 2)
             ELSE <<Element(g, w.val)>> \o PairsKept(items, k + 2)

ChildrenBuildWithoutPanic(node) ==
    \A i \in 2..Len(node.list) : to_flag_geometry(node.list[i]).kind # "Panic"

\* C7: of the pairs of (h w1 g1 ... wn gn) or the v form, a pair with an
\* unparsable weight or a geometry that fails to build is skipped on its
\* own; the split is built from exactly the remaining pairs, in order, each
\* geometry with its own weight.
C7_FailingPairSkippedAlone ==
    (/\ pc # "to_flag_geometry"
     /\ IsSplitForm(sexpr) /\ Len(sexpr.list) >= 3 /\ Len(sexpr.list) % 2 = 1
     /\ ChildrenBuildWithoutPanic(sexpr))
    => /\ ufg # None
       /\ ufg.kind = (IF OpOf(sexpr) = <<"h">> THEN "Horizontal" ELSE "Vertical")
       /\ ufg.elements = PairsKept(sexpr.list, 2)

\* C2: a split whose weights sum to zero is rejected with a defined error
\* somewhere between build, resolve and draw; drawing never divides by zero.
C2_NoDivisionByZero == panic # "attempt to divide by zero"

(***************************************************************************)
(* Properties of FlagGeometry::draw (specification SpecDraw)               *)
(***************************************************************************)
RECURSIVE SumOf(_, _)
\* w_1 + ... + w_k, as a number
SumOf(elements, k) == IF k = 0 THEN 0 ELSE SumOf(elements, k - 1) + elements[k][2]
TotalOf(geo) == SumOf(geo.elements, Len(geo.elements))

AllSolid(geo) == \A i \in 1..Len(geo.elements) : geo.elements[i][1].kind = "Solid"

\* floor(w * E / W)
Share(w, extent, total) == (w * extent) \div total

RECURSIVE SharesBefore(_, _, _)
\* the extents of the children before child k, added up
SharesBefore(geo, extent, k) ==
    IF k <= 1 THEN 0
    ELSE SharesBefore(geo, extent, k - 1)
            + Share(geo.elements[k - 1][2], extent, TotalOf(geo))

\* the rectangle of child k of a split of solids drawn over the whole canvas
ChildRectangle(geo, k) ==
    LET el == geo.elements[k] IN
    IF geo.kind = "Horizontal"
    THEN Call(SharesBefore(geo, img.width, k), 0,
              Share(el[2], img.width, TotalOf(geo)), img.height, el[1].color)
    ELSE Call(0, SharesBefore(geo, img.height, k), img.width,
              Share(el[2], img.height, TotalOf(geo)), el[1].color)

\* C1: a split with weights w_1..w_N over extent E draws child i with extent
\* floor(w_i * E / (w_1 + ... + w_N)) at the origin plus the extents of the
\* children before it, the perpendicular origin and extent unchanged.
\* (Stated for a split of solids whose weight sum is positive and fits the word.)
C1_ChildExtentIsFloorOfShare ==
    (/\ pc # "draw" /\ flag # None /\ IsSplit(flag)
     /\ AllSolid(flag) /\ TotalOf(flag) > 0 /\ TotalOf(flag) <= U32Max)
    => /\ Len(calls) = Len(flag.elements)
       /\ \A k \in 1..Len(calls) : calls[k] = ChildRectangle(flag, k)

RECURSIVE TotalsNonZero(_)
\* every split of the geometry has a weight sum that is not zero, as a
\* number and in the word
TotalsNonZero(geo) ==
    IF geo.kind = "Solid" THEN TRUE
    ELSE /\ TotalOf(geo) # 0 /\ TotalOf(geo) % Modulus # 0
         /\ \A i \in 1..Len(geo.elements) : TotalsNonZero(geo.elements[i][1])

InsideCanvas(call) ==
    /\ call.left + call.width <= img.width
    /\ call.top + call.height <= img.height

\* C10: with wrapping arithmetic, every rectangle call draw issues for a
\* geometry whose splits all have a non-zero total lies inside the canvas.
C10_RectanglesInsideCanvas ==
    (/\ pc # "draw" /\ flag # None /\ ~overflow_checks /\ TotalsNonZero(flag))
    => \A k \in 1..Len(calls) : InsideCanvas(calls[k])

(***************************************************************************)
(* Properties of tags and resolve (specification SpecResolve)              *)
(***************************************************************************)
RECURSIVE Subterms(_)
\* a geometry and every geometry nested in it
Subterms(geo) ==
    {geo} \cup
    CASE geo.kind = "Tag" -> Subterms(geo.geo)
      [] IsSplit(geo) -> UNION {Subterms(geo.elements[i][1]) : i \in 1..Len(geo.elements)}
      [] OTHER -> {}

RefsIn(geo) == {s.tag : s \in {u \in Subterms(geo) : u.kind = "Reference"}}

\* n -> m: the geometry bound to n holds a Reference to the bound name m
TagEdges(map) == {e \in (DOMAIN map) \X (DOMAIN map) : e[2] \in RefsIn(map[e[1]])}

RECURSIVE Closure(_, _)
Closure(R, k) ==
    IF k = 0 THEN R
    ELSE Closure(R \cup {<<p[1][1], p[2][2]>> : p \in {q \in R \X R : q[1][2] = q[2][1]}},
                 k - 1)

\* some bound name reaches a Reference to itself through the table
Cyclic(map) ==
    \E n \in DOMAIN map : <<n, n>> \in Closure(TagEdges(map), Cardinality(DOMAIN map))

RECURSIVE CountTag(_, _)
RECURSIVE CountTagIn(_, _, _)
CountTagIn(elements, k, x) ==
    IF k = 0 THEN 0 ELSE CountTagIn(elements, k - 1, x) + CountTag(elements[k][1], x)
\* how many Tag nodes of the tree declare x
CountTag(geo, x) ==
    CASE geo.kind = "Tag" -> (IF geo.tag = x THEN 1 ELSE 0) + CountTag(geo.geo, x)
      [] IsSplit(geo) -> CountTagIn(geo.elements, Len(geo.elements), x)
      [] OTHER -> 0

\* the geometries the Tag nodes of the tree that declare x wrap
WrappedBy(geo, x) == {s.geo : s \in {u \in Subterms(geo) : u.kind = "Tag" /\ u.tag = x}}

\* the places of the children of a split whose resolution succeeds
Surviving(elements) ==
    {i \in 1..Len(elements) : resolve(elements[i][1], tags) # None}
Rank(S, i) == Cardinality({j \in S : j <= i})

\* C3: resolving a split drops exactly the children whose own resolution
\* fails; the split still resolves, the survivors keep their weights and
\* order, and draw shares the extent among the surviving weights alone.
C3_FailedChildrenDropped ==
    (pc \notin {"resolve", "aborted"} /\ IsSplit(ufg)) =>
        LET S == Surviving(ufg.elements)
            total == SumOf(flag.elements, Len(flag.elements))
            extent == IF flag.kind = "Horizontal" THEN img.width ELSE img.height
        IN
        /\ flag # None /\ flag.kind = ufg.kind
        /\ Len(flag.elements) = Cardinality(S)
        /\ \A i \in S :
              flag.elements[Rank(S, i)]
                  = Element(resolve(ufg.elements[i][1], tags), ufg.elements[i][2])
        /\ (/\ pc = "save" /\ AllSolid(flag) /\ S # {}
            /\ \A i \in S : ufg.elements[i][2] * extent <= U32Max)
           => /\ Len(calls) = Cardinality(S)
              /\ \A i \in S :
                    LET call == calls[Rank(S, i)]
                        got == IF flag.kind = "Horizontal" THEN call.width ELSE call.height
                    IN  got = Share(ufg.elements[i][2], extent, total)
              /\ (Cardinality(S) = 1 /\ total = 1) =>
                    \A p \in DOMAIN img.pixels :
                        img.pixels[p] = to_rgb(flag.elements[1][1].color)

C3_Witness ==
    /\ pc = "save"
    /\ ufg = Horizontal(<<Element(Reference(<<"x">>), 1), Element(Solid(Green), 1)>>)
    /\ flag = Horizontal(<<Element(Solid(Green), 1)>>)
    /\ calls = <<Call(0, 0, img.width, img.height, Green)>>
    /\ \A p \in DOMAIN img.pixels : img.pixels[p] = <<0, 255, 0>>

\* C4: with an acyclic tag table, a name x that exactly one Tag of the tree
\* declares is bound to that Tag's geometry, so every Reference(x), wherever
\* it stands, resolves to what the Tag's wrapped geometry resolves to.
C4_ReferenceResolvesToItsTag ==
    (pc \notin {"resolve", "aborted"} /\ ~Cyclic(tags)) =>
        \A x \in RefsIn(ufg) :
            CountTag(ufg, x) = 1 =>
                LET wrapped == CHOOSE g \in WrappedBy(ufg, x) : TRUE IN
                /\ x \in DOMAIN tags
                /\ resolve(Reference(x), tags) = resolve(wrapped, tags)
                /\ (IsSplit(ufg) /\ flag # None /\ Len(flag.elements) = Len(ufg.elements)) =>
                      \A i \in 1..Len(ufg.elements) :
                          ufg.elements[i][1] = Reference(x) =>
                              flag.elements[i][1] = resolve(wrapped, tags)

C4_Witness ==
    /\ pc = "draw"
    /\ ufg = Horizontal(<<Element(Reference(<<"x">>), 1),
                          Element(Tag(<<"x">>, Solid(Blue)), 1)>>)
    /\ flag = Horizontal(<<Element(Solid(Blue), 1), Element(Solid(Blue), 1)>>)

\* C5: resolve returns for every tree whose tag table has no reference
\* cycle, and runs out of stack exactly when a bound name reaches a
\* Reference to itself, directly or through other tags.
C5_DivergesExactlyOnCycle ==
    pc # "resolve" => (pc = "aborted" <=> Cyclic(tags))

C5_Witness ==
    /\ pc = "aborted"
    /\ ufg = Horizontal(<<Element(Tag(<<"x">>, Reference(<<"y">>)), 1),
                          Element(Tag(<<"y">>, Reference(<<"x">>)), 1)>>)

=============================================================================
